---- MODULE Spec2Model ----
(***************************************************************************)
(* Model of the Egy360 accounts API (accounts/views.py UserViewSet, its    *)
(* serializers in accounts/serializers.py and the CustomUser model in      *)
(* accounts/models.py).  The state is the auth_user table, the id sequence *)
(* of that table, the set of accounts a JWT pair has been issued for, and  *)
(* the response of the last request.                                       *)
(***************************************************************************)
EXTENDS Integers, FiniteSets, Sequences, TLC

VARIABLES accounts, nextId, tokens, resp, requests, inflight, media

vars == <<accounts, nextId, tokens, resp, requests, inflight, media>>

(***************************************************************************)
(* Bounds and input domains                                                *)
(***************************************************************************)
\* number of rows ever inserted into auth_user (ids are never reused)
MaxAccounts == 3

\* number of requests the API serves in a run
MaxRequests == 2

Blank == ""
Absent == "<absent>"

Usernames == {"ali", "sara"}
Emails == {"ali@x.com", "sara@x.com"}
Passwords == {"Pw1!", "Pw2!"}
Texts == {"", "X"}

\* models.py USER_TYPE_CHOICES
USER_TYPE_CHOICES == {"tourist", "provider", "admin"}

Ids == 1..MaxAccounts

(***************************************************************************)
(* Password hashing (AbstractUser.set_password / check_password)           *)
(***************************************************************************)
make_password(raw) == <<"pbkdf2", raw>>

check_password(acct, raw) == acct.password = make_password(raw)

(***************************************************************************)
(* The CustomUser row                                                       *)
(***************************************************************************)
\* field defaults of CustomUser / AbstractUser for a row made by create_user
CustomUser(id, username, email, password, user_type) ==
    [ id                   |-> id,
      username             |-> username,
      email                |-> email,
      password             |-> make_password(password),
      user_type            |-> user_type,
      is_staff             |-> FALSE,
      is_active            |-> TRUE,
      is_verified          |-> FALSE,
      is_phone_verified    |-> FALSE,
      is_identity_verified |-> FALSE,
      is_licensed          |-> FALSE,
      first_name           |-> "",
      phone_number         |-> "",
      address              |-> "",
      profile_picture      |-> "",
      bio                  |-> "",
      website              |-> "",
      business_name        |-> "" ]

\* the row made by create_superuser: a staff member, with the default role
Superuser(id, username, email, password) ==
    [ CustomUser(id, username, email, password, "tourist")
        EXCEPT !.is_staff = TRUE ]

get_full_name(acct) == acct.first_name

full_name(acct) ==
    IF get_full_name(acct) # "" THEN get_full_name(acct) ELSE acct.username

(***************************************************************************)
(* Serializers: the fields each one reads or writes                        *)
(***************************************************************************)
\* the columns of CustomUser the model carries
ModelFields ==
    { "id", "username", "email", "password", "user_type", "is_staff",
      "is_active", "is_verified", "is_phone_verified", "is_identity_verified",
      "is_licensed", "first_name", "phone_number", "address",
      "profile_picture", "bio", "website", "business_name" }

Columns(names) == names \cap ModelFields

\* UserDetailSerializer.Meta.fields
UserDetailFields ==
    { "id", "username", "email", "first_name", "last_name", "full_name",
      "phone_number", "gender", "date_of_birth", "nationality", "address",
      "city", "state", "postal_code", "country", "profile_picture", "bio",
      "website", "user_type", "is_verified", "is_phone_verified",
      "is_identity_verified", "is_licensed", "business_name",
      "business_license", "language_preference", "receive_notifications",
      "receive_sms", "created_at", "updated_at" }

\* UserListSerializer.Meta.fields
UserListFields ==
    { "id", "username", "email", "full_name", "user_type", "is_verified",
      "profile_picture", "created_at" }

\* UserCreateSerializer.Meta.fields
UserCreateFields ==
    { "username", "email", "first_name", "last_name", "password",
      "password2", "user_type", "phone_number" }

UserUpdateFields_WithIdentity ==
    { "username", "email", "first_name", "phone_number", "address",
      "profile_picture", "bio", "website" }

UserUpdateFields_WithRole ==
    { "user_type", "first_name", "phone_number", "address",
      "profile_picture", "bio", "website" }

\* UserUpdateSerializer.Meta.fields
UserUpdateFields ==
    { "first_name", "last_name", "phone_number", "gender", "date_of_birth",
      "nationality", "address", "city", "state", "postal_code", "country",
      "profile_picture", "bio", "website", "language_preference",
      "receive_notifications", "receive_sms" }

\* UserProfilePictureSerializer.Meta.fields
UserProfilePictureFields == { "profile_picture" }

\* UserProviderSerializer.Meta.fields
UserProviderFields ==
    { "id", "username", "email", "full_name", "phone_number",
      "profile_picture", "bio", "website", "business_name", "is_verified",
      "is_licensed" }

\* serializer.data of a ModelSerializer over the carried columns
Representation(fields, acct) ==
    [ f \in Columns(fields) \cup (fields \cap {"full_name"}) |->
        IF f = "full_name" THEN full_name(acct) ELSE acct[f] ]

UserDetailSerializer(acct) == Representation(UserDetailFields, acct)

UserProviderSerializer(acct) == Representation(UserProviderFields, acct)

\* the output of UserCreateSerializer: its write_only fields are left out
UserCreateData(acct) ==
    Representation(UserCreateFields \ {"password", "password2"}, acct)

(***************************************************************************)
(* Token issuer (rest_framework_simplejwt)                                 *)
(***************************************************************************)
NoToken == [kind |-> "none", user_id |-> 0]

AccessToken(id) == [kind |-> "access", user_id |-> id]

RefreshToken(id) == [kind |-> "refresh", user_id |-> id]

\* the credentials a request can carry: none, or an access token that was issued
Credentials == {NoToken} \cup {AccessToken(i) : i \in tokens}

\* request.user: the row the access token names, when it exists and is active
Authenticated(accts, cred) ==
    /\ cred.kind = "access"
    /\ cred.user_id \in DOMAIN accts
    /\ accts[cred.user_id].is_active

Response(op, status, body) == [op |-> op, status |-> status, body |-> body]

NoBody == [detail |-> ""]

Unauthorized(op) ==
    Response(op, 401, [detail |-> "Authentication credentials were not provided."])

ErrorBody(errors) == [k \in errors |-> "invalid"]

(***************************************************************************)
(* Request inputs                                                          *)
(***************************************************************************)
Invalid == "<invalid>"

\* the body of a register / create request
RegisterInputs ==
    [ username  : Usernames,
      email     : Emails,
      password  : Passwords,
      password2 : Passwords,
      user_type : USER_TYPE_CHOICES \cup {Absent} ]

\* POST /users/ takes the same body; the model leaves its user_type out
CreateInputs == { data \in RegisterInputs : data.user_type = Absent }

LoginInputs == [username : Usernames \cup {"admin"}, password : Passwords]

Range(f) == { f[x] : x \in DOMAIN f }

\* the profile columns a request of the model writes
ProfileKeys == {"bio", "profile_picture"}

\* a partial payload: any subset of the profile keys, each with a value; the
\* value of a key is a text, or one its field rejects
ProfilePayloads ==
    UNION { [S -> Texts \cup {Invalid}] : S \in SUBSET ProfileKeys }

\* values a client may send for columns no update serializer lists
Protected ==
    [ id                   |-> 3,
      password             |-> "Pw2!",
      username             |-> "sara",
      email                |-> "sara@x.com",
      user_type            |-> "admin",
      is_staff             |-> TRUE,
      is_verified          |-> TRUE,
      is_phone_verified    |-> TRUE,
      is_identity_verified |-> TRUE,
      is_licensed          |-> TRUE ]

\* payloads naming one such column, or all of them next to a bio
ProtectedPayloads ==
    { [k \in {key} |-> Protected[k]] :
        key \in {"username", "email", "user_type", "is_verified"} }
    \cup { [k \in DOMAIN Protected \cup {"bio"} |->
              IF k = "bio" THEN "X" ELSE Protected[k]] }

\* the bodies of update_profile
UpdatePayloads == ProfilePayloads \cup ProtectedPayloads

\* the bodies of PUT / PATCH by id
PutPayloads ==
    { payload \in ProfilePayloads : DOMAIN payload = {"bio"} }
    \cup ProtectedPayloads

\* the query string of provider_info: with or without a user_id
ProviderInfoQueries == UNION { [S -> Ids] : S \in SUBSET {"user_id"} }

\* multipart body of an upload: no file, an image, or a file that is no image
UploadPayloads ==
    { payload \in ProfilePayloads :
        DOMAIN payload \subseteq {"profile_picture"} /\ "" \notin Range(payload) }

PasswordChangeInputs ==
    [ old_password  : Passwords,
      new_password  : Passwords \cup {Blank},
      new_password2 : Passwords \cup {Blank} ]

Only(cond, key) == IF cond THEN {key} ELSE {}

(***************************************************************************)
(* UserCreateSerializer                                                    *)
(***************************************************************************)
UniqueColumns_None == {}

\* the unique columns of auth_user: AbstractUser declares username unique;
\* its email is not unique and CustomUser does not redeclare it
UniqueColumns == {"username"}

\* UniqueValidator, which a ModelSerializer adds for every unique column
Taken(accts, column, value) ==
    /\ column \in UniqueColumns
    /\ \E i \in DOMAIN accts : accts[i][column] = value

\* field validation: required and non-blank CharFields, unique columns,
\* user_type among the choices
UserCreateFieldErrors(accts, data) ==
    Only(data.username = Blank \/ Taken(accts, "username", data.username), "username")
    \cup Only(Taken(accts, "email", data.email), "email")
    \cup Only(data.password = Blank, "password")
    \cup Only(data.password2 = Blank, "password2")
    \cup Only(data.user_type \notin USER_TYPE_CHOICES \cup {Absent}, "user_type")

UserCreateValidate_NoCheck(data) == {}

\* UserCreateSerializer.validate
UserCreateValidate(data) ==
    Only(data.password # data.password2, "password")

UserCreateErrors_ValidateOnly(accts, data) == UserCreateValidate(data)

\* is_valid(): validate() runs only when every field passed
UserCreateErrors(accts, data) ==
    IF UserCreateFieldErrors(accts, data) # {}
    THEN UserCreateFieldErrors(accts, data)
    ELSE UserCreateValidate(data)

UserCreate_TouristOnly(id, data) ==
    CustomUser(id, data.username, data.email, data.password, "tourist")

\* create_user called without the password: the row gets an unusable one
UserCreate_NoPassword(id, data) ==
    [ CustomUser(id, data.username, data.email, data.password,
                 IF data.user_type = Absent THEN "tourist" ELSE data.user_type)
        EXCEPT !.password = <<"!", "unusable">> ]

\* objects.create in place of create_user: the password is stored as sent
UserCreate_ClearPassword(id, data) ==
    [ CustomUser(id, data.username, data.email, data.password,
                 IF data.user_type = Absent THEN "tourist" ELSE data.user_type)
        EXCEPT !.password = <<"plain", data.password>> ]

\* a create that makes staff of whoever asks for the role admin
UserCreate_AdminIsStaff(id, data) ==
    [ CustomUser(id, data.username, data.email, data.password,
                 IF data.user_type = Absent THEN "tourist" ELSE data.user_type)
        EXCEPT !.is_staff = (data.user_type = "admin") ]

\* UserCreateSerializer.create
UserCreate(id, data) ==
    CustomUser(id, data.username, data.email, data.password,
               IF data.user_type = Absent THEN "tourist" ELSE data.user_type)

(***************************************************************************)
(* POST /users/register/                                                   *)
(***************************************************************************)
Register(data) ==
    LET errors == UserCreateErrors(accounts, data)
        user   == UserCreate(nextId, data)
    IN  IF errors = {}
        THEN /\ nextId <= MaxAccounts
             /\ accounts' = (nextId :> user) @@ accounts
             /\ nextId' = nextId + 1
             /\ tokens' = tokens \cup {user.id}
             /\ resp' = Response("register", 201,
                          [ id      |-> user.id,
                            access  |-> AccessToken(user.id),
                            refresh |-> RefreshToken(user.id),
                            user    |-> UserDetailSerializer(user),
                            message |-> "Registration successful!" ])
        ELSE /\ resp' = Response("register", 400, ErrorBody(errors))
             /\ UNCHANGED <<accounts, nextId, tokens>>

(***************************************************************************)
(* POST /users/  (CreateModelMixin.create)                                 *)
(***************************************************************************)
\* POST /users/ behind AllowAny
Create_Open(cred, data) ==
    LET errors == UserCreateErrors(accounts, data)
        user   == UserCreate(nextId, data)
    IN  IF errors = {}
        THEN /\ nextId <= MaxAccounts
             /\ accounts' = (nextId :> user) @@ accounts
             /\ nextId' = nextId + 1
             /\ resp' = Response("create", 201, UserCreateData(user))
             /\ UNCHANGED tokens
        ELSE /\ resp' = Response("create", 400, ErrorBody(errors))
             /\ UNCHANGED <<accounts, nextId, tokens>>

Create(cred, data) ==
    LET errors == UserCreateErrors(accounts, data)
        user   == UserCreate(nextId, data)
    IN  IF ~Authenticated(accounts, cred)
        THEN /\ resp' = Unauthorized("create")
             /\ UNCHANGED <<accounts, nextId, tokens>>
        ELSE IF errors = {}
        THEN /\ nextId <= MaxAccounts
             /\ accounts' = (nextId :> user) @@ accounts
             /\ nextId' = nextId + 1
             /\ resp' = Response("create", 201, UserCreateData(user))
             /\ UNCHANGED tokens
        ELSE /\ resp' = Response("create", 400, ErrorBody(errors))
             /\ UNCHANGED <<accounts, nextId, tokens>>

(***************************************************************************)
(* POST /users/login/                                                      *)
(***************************************************************************)
\* django.contrib.auth.authenticate (ModelBackend): the active row with this
\* username whose stored hash matches; the empty set stands for None
authenticate(accts, username, password) ==
    { i \in DOMAIN accts :
        /\ accts[i].username = username
        /\ check_password(accts[i], password)
        /\ accts[i].is_active }

LoginResponse_Leaks(accts, data) ==
    LET found == authenticate(accts, data.username, data.password)
    IN  IF found # {}
        THEN LET user == accts[CHOOSE i \in found : TRUE]
             IN  Response("login", 200,
                   [ access  |-> AccessToken(user.id),
                     refresh |-> RefreshToken(user.id),
                     user    |-> UserDetailSerializer(user),
                     message |-> "Login successful!" ])
        ELSE IF \E i \in DOMAIN accts : accts[i].username = data.username
        THEN Response("login", 401, [error |-> "Invalid credentials"])
        ELSE Response("login", 404, [error |-> "User not found"])

\* the response of login, as a function of the table and the request
LoginResponse(accts, data) ==
    LET found == authenticate(accts, data.username, data.password)
    IN  IF found # {}
        THEN LET user == accts[CHOOSE i \in found : TRUE]
             IN  Response("login", 200,
                   [ access  |-> AccessToken(user.id),
                     refresh |-> RefreshToken(user.id),
                     user    |-> UserDetailSerializer(user),
                     message |-> "Login successful!" ])
        ELSE Response("login", 401, [error |-> "Invalid credentials"])

\* a login that locks the account out after a wrong password
Login_Lockout(data) ==
    /\ resp' = LoginResponse(accounts, data)
    /\ tokens' = tokens \cup authenticate(accounts, data.username, data.password)
    /\ accounts' = [ i \in DOMAIN accounts |->
                       IF /\ accounts[i].username = data.username
                          /\ ~check_password(accounts[i], data.password)
                       THEN [accounts[i] EXCEPT !.is_active = FALSE]
                       ELSE accounts[i] ]
    /\ UNCHANGED nextId

Login(data) ==
    /\ resp' = LoginResponse(accounts, data)
    /\ tokens' = tokens \cup authenticate(accounts, data.username, data.password)
    /\ UNCHANGED <<accounts, nextId>>

(***************************************************************************)
(* GET /users/me/                                                          *)
(***************************************************************************)
MeResponse_First(accts, cred) ==
    IF Authenticated(accts, cred)
    THEN Response("me", 200,
           UserDetailSerializer(accts[CHOOSE i \in DOMAIN accts :
                                        \A j \in DOMAIN accts : i <= j]))
    ELSE Unauthorized("me")

MeResponse(accts, cred) ==
    IF Authenticated(accts, cred)
    THEN Response("me", 200, UserDetailSerializer(accts[cred.user_id]))
    ELSE Unauthorized("me")

Me(cred) ==
    /\ resp' = MeResponse(accounts, cred)
    /\ UNCHANGED <<accounts, nextId, tokens>>

(***************************************************************************)
(* ModelSerializer with an instance: validation and update                 *)
(***************************************************************************)
\* the keys of the payload the serializer reads; every other key is ignored
Writable(fields, payload) == DOMAIN payload \cap Columns(fields)

\* field validation of a partial payload
UpdateErrors(fields, payload) ==
    { k \in Writable(fields, payload) : payload[k] = Invalid }

\* the names the storage falls back on when the name of an upload is in use
AlternativeNames == <<"X_1", "X_2", "X_3">>

\* Storage.get_available_name: the name of the upload, or one not in use
AvailableName(files, name) ==
    IF name \notin files THEN name
    ELSE AlternativeNames[
           CHOOSE k \in DOMAIN AlternativeNames :
               /\ AlternativeNames[k] \notin files
               /\ \A j \in 1..(k - 1) : AlternativeNames[j] \in files ]

\* the keys of the payload that carry a file for an ImageField of the serializer
FileKeys(fields, payload) ==
    { k \in Writable(fields, payload) \cap {"profile_picture"} : payload[k] # "" }

\* the validated data as Model.save() writes it: FileField.pre_save stores
\* each upload under upload_to and puts the name it got in the column
Stored(files, fields, payload) ==
    [ k \in DOMAIN payload |->
        IF k \in FileKeys(fields, payload)
        THEN AvailableName(files, payload[k]) ELSE payload[k] ]

\* the files the save has put in the storage
Files(fields, payload) == { payload[k] : k \in FileKeys(fields, payload) }

SerializerUpdate_Full(fields, acct, payload) ==
    [ f \in DOMAIN acct |->
        IF f \in Writable(fields, payload) THEN payload[f]
        ELSE IF f \in Columns(fields) THEN "" ELSE acct[f] ]

\* an update that clears a field when it is sent the value the field has
SerializerUpdate_Toggle(fields, acct, payload) ==
    [ f \in DOMAIN acct |->
        IF f \in Writable(fields, payload)
        THEN IF acct[f] = payload[f] THEN "" ELSE payload[f]
        ELSE acct[f] ]

SerializerUpdate_WithFlags(fields, acct, payload) ==
    [ f \in DOMAIN acct |->
        IF f \in Writable(fields, payload)
              \cup (DOMAIN payload \cap {"is_verified", "is_licensed"})
        THEN payload[f] ELSE acct[f] ]

\* ModelSerializer.update: setattr for every validated key, then save()
SerializerUpdate(fields, acct, payload) ==
    [ f \in DOMAIN acct |->
        IF f \in Writable(fields, payload) THEN payload[f] ELSE acct[f] ]

(***************************************************************************)
(* PUT /users/update_profile/                                              *)
(***************************************************************************)
UpdateProfile(cred, payload) ==
    LET errors  == UpdateErrors(UserUpdateFields, payload)
        stored  == Stored(media, UserUpdateFields, payload)
        updated == SerializerUpdate(UserUpdateFields, accounts[cred.user_id], stored)
    IN  IF ~Authenticated(accounts, cred)
        THEN /\ resp' = Unauthorized("update_profile")
             /\ UNCHANGED <<accounts, nextId, tokens, media>>
        ELSE IF errors = {}
        THEN /\ accounts' = [accounts EXCEPT ![cred.user_id] = updated]
             /\ resp' = Response("update_profile", 200,
                          [ message |-> "Profile updated successfully!",
                            user    |-> UserDetailSerializer(updated) ])
             /\ media' = media \cup Files(UserUpdateFields, stored)
             /\ UNCHANGED <<nextId, tokens>>
        ELSE /\ resp' = Response("update_profile", 400, ErrorBody(errors))
             /\ UNCHANGED <<accounts, nextId, tokens, media>>

(***************************************************************************)
(* PUT, PATCH /users/{id}/  (UpdateModelMixin)                             *)
(***************************************************************************)
NotFound(op) == Response(op, 404, [detail |-> "Not found."])

Update(cred, id, payload) ==
    LET errors  == UpdateErrors(UserUpdateFields, payload)
        stored  == Stored(media, UserUpdateFields, payload)
        updated == SerializerUpdate(UserUpdateFields, accounts[id], stored)
    IN  IF ~Authenticated(accounts, cred)
        THEN /\ resp' = Unauthorized("update")
             /\ UNCHANGED <<accounts, nextId, tokens, media>>
        ELSE IF id \notin DOMAIN accounts
        THEN /\ resp' = NotFound("update")
             /\ UNCHANGED <<accounts, nextId, tokens, media>>
        ELSE IF errors = {}
        THEN /\ accounts' = [accounts EXCEPT ![id] = updated]
             /\ resp' = Response("update", 200,
                          Representation(UserUpdateFields, updated))
             /\ media' = media \cup Files(UserUpdateFields, stored)
             /\ UNCHANGED <<nextId, tokens>>
        ELSE /\ resp' = Response("update", 400, ErrorBody(errors))
             /\ UNCHANGED <<accounts, nextId, tokens, media>>

(***************************************************************************)
(* POST /users/password_change/                                            *)
(***************************************************************************)
\* the three CharFields (a blank is refused) and validate_old_password
PasswordChangeFieldErrors(user, data) ==
    Only(~check_password(user, data.old_password), "old_password")
    \cup Only(data.new_password = Blank, "new_password")
    \cup Only(data.new_password2 = Blank, "new_password2")

PasswordChangeErrors_NoOldCheck(user, data) ==
    LET field == PasswordChangeFieldErrors(user, data) \ {"old_password"}
    IN  IF field # {} THEN field
        ELSE Only(data.new_password # data.new_password2, "new_password")

\* UserPasswordChangeSerializer.is_valid: validate runs when no field failed
PasswordChangeErrors(user, data) ==
    LET field == PasswordChangeFieldErrors(user, data)
    IN  IF field # {} THEN field
        ELSE Only(data.new_password # data.new_password2, "new_password")

PasswordChange_NoSave(cred, data) ==
    LET user == accounts[cred.user_id]
        errors == PasswordChangeErrors(user, data)
    IN  /\ resp' = IF ~Authenticated(accounts, cred)
                   THEN Unauthorized("password_change")
                   ELSE IF errors = {}
                   THEN Response("password_change", 200,
                          [message |-> "Password changed successfully!"])
                   ELSE Response("password_change", 400, ErrorBody(errors))
        /\ UNCHANGED <<accounts, nextId, tokens>>

\* a password change that also blacklists the tokens of the account
PasswordChange_Revokes(cred, data) ==
    LET user == accounts[cred.user_id]
        errors == PasswordChangeErrors(user, data)
    IN  IF ~Authenticated(accounts, cred)
        THEN /\ resp' = Unauthorized("password_change")
             /\ UNCHANGED <<accounts, nextId, tokens>>
        ELSE IF errors = {}
        THEN /\ accounts' = [accounts EXCEPT
                   ![cred.user_id].password = make_password(data.new_password)]
             /\ resp' = Response("password_change", 200,
                          [message |-> "Password changed successfully!"])
             /\ tokens' = tokens \ {cred.user_id}
             /\ UNCHANGED nextId
        ELSE /\ resp' = Response("password_change", 400, ErrorBody(errors))
             /\ UNCHANGED <<accounts, nextId, tokens>>

PasswordChange(cred, data) ==
    LET user == accounts[cred.user_id]
        errors == PasswordChangeErrors(user, data)
    IN  IF ~Authenticated(accounts, cred)
        THEN /\ resp' = Unauthorized("password_change")
             /\ UNCHANGED <<accounts, nextId, tokens>>
        ELSE IF errors = {}
        THEN /\ accounts' = [accounts EXCEPT
                   ![cred.user_id].password = make_password(data.new_password)]
             /\ resp' = Response("password_change", 200,
                          [message |-> "Password changed successfully!"])
             /\ UNCHANGED <<nextId, tokens>>
        ELSE /\ resp' = Response("password_change", 400, ErrorBody(errors))
             /\ UNCHANGED <<accounts, nextId, tokens>>

(***************************************************************************)
(* POST /users/upload_profile_picture/                                     *)
(***************************************************************************)
UploadProfilePicture(cred, payload) ==
    LET errors  == UpdateErrors(UserProfilePictureFields, payload)
        stored  == Stored(media, UserProfilePictureFields, payload)
        updated == SerializerUpdate(UserProfilePictureFields,
                                    accounts[cred.user_id], stored)
    IN  IF ~Authenticated(accounts, cred)
        THEN /\ resp' = Unauthorized("upload_profile_picture")
             /\ UNCHANGED <<accounts, nextId, tokens, media>>
        ELSE IF errors = {}
        THEN /\ accounts' = [accounts EXCEPT ![cred.user_id] = updated]
             /\ resp' = Response("upload_profile_picture", 200,
                          [ profile_picture |-> updated.profile_picture,
                            message |-> "Profile picture uploaded!" ])
             /\ media' = media \cup Files(UserProfilePictureFields, stored)
             /\ UNCHANGED <<nextId, tokens>>
        ELSE /\ resp' = Response("upload_profile_picture", 400, ErrorBody(errors))
             /\ UNCHANGED <<accounts, nextId, tokens, media>>

(***************************************************************************)
(* GET /users/provider_info/?user_id=                                      *)
(***************************************************************************)
\* a request whose bearer token names no active row is refused by
\* JWTAuthentication before any permission is looked at
BadToken(accts, cred) == cred # NoToken /\ ~Authenticated(accts, cred)

ProviderInfoResponse_Forbidden(accts, query) ==
    IF "user_id" \notin DOMAIN query
    THEN Response("provider_info", 400, [error |-> "user_id parameter required"])
    ELSE IF query.user_id \notin DOMAIN accts
    THEN Response("provider_info", 404, [error |-> "Provider not found"])
    ELSE IF accts[query.user_id].user_type # "provider"
    THEN Response("provider_info", 403, [error |-> "Not a provider"])
    ELSE Response("provider_info", 200, UserProviderSerializer(accts[query.user_id]))

ProviderInfoResponse_AnyRole(accts, query) ==
    IF "user_id" \notin DOMAIN query
    THEN Response("provider_info", 400, [error |-> "user_id parameter required"])
    ELSE IF query.user_id \notin DOMAIN accts
    THEN Response("provider_info", 404, [error |-> "Provider not found"])
    ELSE Response("provider_info", 200, UserProviderSerializer(accts[query.user_id]))

\* the response of provider_info, as a function of the table and the query
ProviderInfoResponse(accts, query) ==
    IF "user_id" \notin DOMAIN query
    THEN Response("provider_info", 400, [error |-> "user_id parameter required"])
    ELSE IF /\ query.user_id \in DOMAIN accts
            /\ accts[query.user_id].user_type = "provider"
    THEN Response("provider_info", 200, UserProviderSerializer(accts[query.user_id]))
    ELSE Response("provider_info", 404, [error |-> "Provider not found"])

ProviderInfo(cred, query) ==
    /\ resp' = IF BadToken(accounts, cred)
               THEN Unauthorized("provider_info")
               ELSE ProviderInfoResponse(accounts, query)
    /\ UNCHANGED <<accounts, nextId, tokens>>

(***************************************************************************)
(* GET /users/  (ListModelMixin.list)                                      *)
(***************************************************************************)
ListResponse(accts) ==
    Response("list", 200,
      [ results |-> [i \in DOMAIN accts |-> Representation(UserListFields, accts[i])] ])

List(cred) ==
    /\ resp' = IF BadToken(accounts, cred)
               THEN Unauthorized("list")
               ELSE ListResponse(accounts)
    /\ UNCHANGED <<accounts, nextId, tokens>>

(***************************************************************************)
(* GET /users/{id}/  (RetrieveModelMixin.retrieve)                         *)
(***************************************************************************)
RetrieveResponse(accts, id) ==
    IF id \in DOMAIN accts
    THEN Response("retrieve", 200, UserDetailSerializer(accts[id]))
    ELSE NotFound("retrieve")

Retrieve(cred, id) ==
    /\ resp' = IF BadToken(accounts, cred)
               THEN Unauthorized("retrieve")
               ELSE RetrieveResponse(accounts, id)
    /\ UNCHANGED <<accounts, nextId, tokens>>

(***************************************************************************)
(* DELETE /users/{id}/                                                     *)
(***************************************************************************)
Destroy_NoCheck(cred, id) ==
    IF ~Authenticated(accounts, cred)
    THEN /\ resp' = Unauthorized("destroy")
         /\ UNCHANGED <<accounts, nextId, tokens>>
    ELSE IF id \notin DOMAIN accounts
    THEN /\ resp' = NotFound("destroy")
         /\ UNCHANGED <<accounts, nextId, tokens>>
    ELSE /\ accounts' = [i \in DOMAIN accounts \ {id} |-> accounts[i]]
         /\ resp' = Response("destroy", 204,
                      [message |-> "Account deleted successfully"])
         /\ UNCHANGED <<nextId, tokens>>

Destroy_SoftDelete(cred, id) ==
    IF ~Authenticated(accounts, cred)
    THEN /\ resp' = Unauthorized("destroy")
         /\ UNCHANGED <<accounts, nextId, tokens>>
    ELSE IF id \notin DOMAIN accounts
    THEN /\ resp' = NotFound("destroy")
         /\ UNCHANGED <<accounts, nextId, tokens>>
    ELSE IF cred.user_id # id /\ ~accounts[cred.user_id].is_staff
    THEN /\ resp' = Response("destroy", 403,
                      [error |-> "You can only delete your own account"])
         /\ UNCHANGED <<accounts, nextId, tokens>>
    ELSE /\ accounts' = [accounts EXCEPT ![id].is_active = FALSE]
         /\ resp' = Response("destroy", 204,
                      [message |-> "Account deleted successfully"])
         /\ UNCHANGED <<nextId, tokens>>

\* UserViewSet.destroy, behind IsAuthenticatedOrReadOnly and get_object
Destroy(cred, id) ==
    IF ~Authenticated(accounts, cred)
    THEN /\ resp' = Unauthorized("destroy")
         /\ UNCHANGED <<accounts, nextId, tokens>>
    ELSE IF id \notin DOMAIN accounts
    THEN /\ resp' = NotFound("destroy")
         /\ UNCHANGED <<accounts, nextId, tokens>>
    ELSE IF cred.user_id # id /\ ~accounts[cred.user_id].is_staff
    THEN /\ resp' = Response("destroy", 403,
                      [error |-> "You can only delete your own account"])
         /\ UNCHANGED <<accounts, nextId, tokens>>
    ELSE /\ accounts' = [i \in DOMAIN accounts \ {id} |-> accounts[i]]
         /\ resp' = Response("destroy", 204,
                      [message |-> "Account deleted successfully"])
         /\ UNCHANGED <<nextId, tokens>>

(***************************************************************************)
(* The specification                                                       *)
(***************************************************************************)
NoResponse == Response("none", 0, NoBody)

\* the worker processes of the server, each serving one request at a time
Workers == {"w1", "w2"}

Idle == [op |-> "idle"]

\* the tables the service starts from: the empty auth_user table, or one
\* filled through the manager (create_user, create_superuser) with a token
\* pair minted for each row by RefreshToken.for_user, as the test fixtures do
Fixtures ==
    { <<>>,
      (1 :> CustomUser(1, "ali", "ali@x.com", "Pw1!", "tourist")),
      (1 :> Superuser(1, "admin", "admin@x.com", "Pw1!"))
        @@ (2 :> CustomUser(2, "ali", "ali@x.com", "Pw1!", "tourist")) }

Init ==
    /\ accounts \in Fixtures
    /\ nextId = Cardinality(DOMAIN accounts) + 1
    /\ tokens = DOMAIN accounts
    /\ resp = NoResponse
    /\ requests = 0
    /\ inflight = [w \in Workers |-> Idle]
    /\ media = {}

\* every request is counted, up to the bound of the run
Count ==
    /\ requests < MaxRequests
    /\ requests' = requests + 1

\* a request served from its first line to its last with no other in between
Serve == Count /\ UNCHANGED inflight

\* such a request, of a handler that stores no file
Tick == Serve /\ UNCHANGED media

RegisterRequest == \E data \in RegisterInputs : Tick /\ Register(data)

CreateRequest ==
    \E cred \in Credentials, data \in CreateInputs : Tick /\ Create(cred, data)

LoginRequest == \E data \in LoginInputs : Tick /\ Login(data)

MeRequest == \E cred \in Credentials : Tick /\ Me(cred)

UpdateProfileRequest ==
    \E cred \in Credentials, payload \in UpdatePayloads :
        Serve /\ UpdateProfile(cred, payload)

UpdateRequest ==
    \E cred \in Credentials, id \in Ids, payload \in PutPayloads :
        Serve /\ Update(cred, id, payload)

PasswordChangeRequest ==
    \E cred \in Credentials, data \in PasswordChangeInputs :
        Tick /\ PasswordChange(cred, data)

UploadProfilePictureRequest ==
    \E cred \in Credentials, payload \in UploadPayloads :
        Serve /\ UploadProfilePicture(cred, payload)

ProviderInfoRequest ==
    \E cred \in Credentials, query \in ProviderInfoQueries :
        Tick /\ ProviderInfo(cred, query)

ListRequest == \E cred \in Credentials : Tick /\ List(cred)

RetrieveRequest ==
    \E cred \in Credentials, id \in Ids : Tick /\ Retrieve(cred, id)

DestroyRequest ==
    \E cred \in Credentials, id \in Ids : Tick /\ Destroy(cred, id)

Next ==
    \/ RegisterRequest
    \/ CreateRequest
    \/ LoginRequest
    \/ MeRequest
    \/ UpdateProfileRequest
    \/ UpdateRequest
    \/ PasswordChangeRequest
    \/ UploadProfilePictureRequest
    \/ ProviderInfoRequest
    \/ ListRequest
    \/ RetrieveRequest
    \/ DestroyRequest

Spec == Init /\ [][Next]_vars

(***************************************************************************)
(* Requests served by concurrent workers.  A handler reads the table when  *)
(* it authenticates, loads and validates, and writes it when it saves; the *)
(* steps of another worker may fall between the two.                       *)
(***************************************************************************)
RaceRegisterInputs ==
    { data \in RegisterInputs :
        /\ data.password = "Pw1!"
        /\ data.password2 = "Pw1!"
        /\ data.user_type = Absent }

RaceProfilePayloads == { payload \in ProfilePayloads : DOMAIN payload = {"bio"} }

RacePasswordChangeInputs ==
    { data \in PasswordChangeInputs : data.new_password = data.new_password2 }

\* an exception no handler catches: Django answers 500
ServerError(op) == Response(op, 500, [detail |-> "IntegrityError"])

\* the unique index of auth_user refuses a row whose unique column is in
\* use by another row
IntegrityError(accts, row) ==
    \E column \in UniqueColumns, i \in DOMAIN accts \ {row.id} :
        accts[i][column] = row[column]

\* Model.save() without update_fields: UPDATE of every column WHERE id = pk
\* and, when that matches no row, INSERT of the instance with its pk
Save(accts, row) ==
    [ i \in DOMAIN accts \cup {row.id} |-> IF i = row.id THEN row ELSE accts[i] ]

Answer(w, response) ==
    /\ resp' = response
    /\ inflight' = [inflight EXCEPT ![w] = Idle]

Hold(w, request) ==
    /\ inflight' = [inflight EXCEPT ![w] = request]
    /\ UNCHANGED resp

\* register up to serializer.is_valid()
BeginRegister(w, data) ==
    LET errors == UserCreateErrors(accounts, data)
    IN  /\ inflight[w].op = "idle"
        /\ Count
        /\ IF errors = {}
           THEN Hold(w, [op |-> "register", data |-> data])
           ELSE Answer(w, Response("register", 400, ErrorBody(errors)))
        /\ UNCHANGED <<accounts, nextId, tokens, media>>

\* register from serializer.save() on: create_user inserts the row
FinishRegister(w) ==
    LET user == UserCreate(nextId, inflight[w].data)
    IN  /\ inflight[w].op = "register"
        /\ UNCHANGED <<requests, media>>
        /\ IF IntegrityError(accounts, user)
           THEN /\ Answer(w, ServerError("register"))
                /\ UNCHANGED <<accounts, nextId, tokens>>
           ELSE /\ nextId <= MaxAccounts
                /\ accounts' = Save(accounts, user)
                /\ nextId' = nextId + 1
                /\ tokens' = tokens \cup {user.id}
                /\ Answer(w, Response("register", 201,
                             [ id      |-> user.id,
                               access  |-> AccessToken(user.id),
                               refresh |-> RefreshToken(user.id),
                               user    |-> UserDetailSerializer(user),
                               message |-> "Registration successful!" ]))

\* update_profile up to serializer.is_valid(): request.user is the row as
\* JWTAuthentication read it
BeginUpdateProfile(w, cred, payload) ==
    LET errors == UpdateErrors(UserUpdateFields, payload)
    IN  /\ inflight[w].op = "idle"
        /\ Count
        /\ IF ~Authenticated(accounts, cred)
           THEN Answer(w, Unauthorized("update_profile"))
           ELSE IF errors # {}
           THEN Answer(w, Response("update_profile", 400, ErrorBody(errors)))
           ELSE Hold(w, [ op      |-> "update_profile",
                          fields  |-> UserUpdateFields,
                          payload |-> payload,
                          user    |-> accounts[cred.user_id] ])
        /\ UNCHANGED <<accounts, nextId, tokens, media>>

\* upload_profile_picture up to serializer.is_valid()
BeginUploadProfilePicture(w, cred, payload) ==
    LET errors == UpdateErrors(UserProfilePictureFields, payload)
    IN  /\ inflight[w].op = "idle"
        /\ Count
        /\ IF ~Authenticated(accounts, cred)
           THEN Answer(w, Unauthorized("upload_profile_picture"))
           ELSE IF errors # {}
           THEN Answer(w, Response("upload_profile_picture", 400, ErrorBody(errors)))
           ELSE Hold(w, [ op      |-> "upload_profile_picture",
                          fields  |-> UserProfilePictureFields,
                          payload |-> payload,
                          user    |-> accounts[cred.user_id] ])
        /\ UNCHANGED <<accounts, nextId, tokens, media>>

\* password_change up to user.set_password(...)
BeginPasswordChange(w, cred, data) ==
    LET errors == PasswordChangeErrors(accounts[cred.user_id], data)
    IN  /\ inflight[w].op = "idle"
        /\ Count
        /\ IF ~Authenticated(accounts, cred)
           THEN Answer(w, Unauthorized("password_change"))
           ELSE IF errors # {}
           THEN Answer(w, Response("password_change", 400, ErrorBody(errors)))
           ELSE Hold(w, [ op      |-> "password_change",
                          fields  |-> {},
                          payload |-> <<>>,
                          user    |-> [accounts[cred.user_id] EXCEPT
                                         !.password = make_password(data.new_password)] ])
        /\ UNCHANGED <<accounts, nextId, tokens, media>>

\* what the three handlers answer once the instance is saved
Saved(op, user) ==
    IF op = "update_profile"
    THEN Response(op, 200, [ message |-> "Profile updated successfully!",
                             user    |-> UserDetailSerializer(user) ])
    ELSE IF op = "upload_profile_picture"
    THEN Response(op, 200, [ profile_picture |-> user.profile_picture,
                             message |-> "Profile picture uploaded!" ])
    ELSE Response(op, 200, [message |-> "Password changed successfully!"])

\* serializer.save() / user.save(): the validated data are set on the
\* instance the handler holds, its uploads are stored, the row is written
FinishSave(w) ==
    LET held   == inflight[w]
        stored == Stored(media, held.fields, held.payload)
        user   == SerializerUpdate(held.fields, held.user, stored)
    IN  /\ held.op \in {"update_profile", "upload_profile_picture", "password_change"}
        /\ media' = media \cup Files(held.fields, stored)
        /\ UNCHANGED <<requests, nextId, tokens>>
        /\ IF IntegrityError(accounts, user)
           THEN /\ Answer(w, ServerError(held.op))
                /\ UNCHANGED accounts
           ELSE /\ accounts' = Save(accounts, user)
                /\ Answer(w, Saved(held.op, user))

\* destroy up to the permission check
BeginDestroy(w, cred, id) ==
    /\ inflight[w].op = "idle"
    /\ Count
    /\ IF ~Authenticated(accounts, cred)
       THEN Answer(w, Unauthorized("destroy"))
       ELSE IF id \notin DOMAIN accounts
       THEN Answer(w, NotFound("destroy"))
       ELSE IF cred.user_id # id /\ ~accounts[cred.user_id].is_staff
       THEN Answer(w, Response("destroy", 403,
                        [error |-> "You can only delete your own account"]))
       ELSE Hold(w, [op |-> "destroy", user |-> accounts[id]])
    /\ UNCHANGED <<accounts, nextId, tokens, media>>

\* user.delete(): DELETE WHERE id = pk, which may match no row
FinishDestroy(w) ==
    /\ inflight[w].op = "destroy"
    /\ accounts' = [i \in DOMAIN accounts \ {inflight[w].user.id} |-> accounts[i]]
    /\ Answer(w, Response("destroy", 204,
                   [message |-> "Account deleted successfully"]))
    /\ UNCHANGED <<requests, nextId, tokens, media>>

BeginRegisterStep ==
    \E w \in Workers, data \in RaceRegisterInputs : BeginRegister(w, data)

FinishRegisterStep == \E w \in Workers : FinishRegister(w)

BeginUpdateProfileStep ==
    \E w \in Workers, cred \in Credentials, payload \in RaceProfilePayloads :
        BeginUpdateProfile(w, cred, payload)

BeginUploadProfilePictureStep ==
    \E w \in Workers, cred \in Credentials, payload \in UploadPayloads :
        BeginUploadProfilePicture(w, cred, payload)

BeginPasswordChangeStep ==
    \E w \in Workers, cred \in Credentials, data \in RacePasswordChangeInputs :
        BeginPasswordChange(w, cred, data)

FinishSaveStep == \E w \in Workers : FinishSave(w)

BeginDestroyStep ==
    \E w \in Workers, cred \in Credentials, id \in Ids : BeginDestroy(w, cred, id)

FinishDestroyStep == \E w \in Workers : FinishDestroy(w)

RaceNext ==
    \/ BeginRegisterStep
    \/ FinishRegisterStep
    \/ BeginUpdateProfileStep
    \/ BeginUploadProfilePictureStep
    \/ BeginPasswordChangeStep
    \/ FinishSaveStep
    \/ BeginDestroyStep
    \/ FinishDestroyStep

RaceSpec == Init /\ [][RaceNext]_vars

(***************************************************************************)
(* Properties                                                              *)
(***************************************************************************)
InUse(column, value) ==
    \E i \in DOMAIN accounts : accounts[i][column] = value

Keys(response) == DOMAIN response.body

\* the table after the step is the table before it
StoreUnchanged == accounts' = accounts /\ nextId' = nextId

\* C1: in every reachable state no two existing accounts have the same
\* username.
C1_UsernameUnique ==
    \A i, j \in DOMAIN accounts :
        i # j => accounts[i].username # accounts[j].username

\* two accounts exist and a register with a username in use was just refused
C1_Witness ==
    /\ Cardinality(DOMAIN accounts) = 2
    /\ resp.op = "register"
    /\ resp.status = 400
    /\ "username" \in Keys(resp)

\* C2: in every reachable state no two existing accounts have the same email.
C2_EmailUnique ==
    \A i, j \in DOMAIN accounts :
        i # j => accounts[i].email # accounts[j].email

\* C3: register with a username in use and an unused email fails with HTTP
\* 400 keyed by 'username', issues no tokens and leaves the table unchanged.
C3_DuplicateUsernameRejected ==
    [][ \A data \in RegisterInputs :
          ( /\ resp'.op = "register"
            /\ InUse("username", data.username)
            /\ ~InUse("email", data.email)
            /\ Register(data) )
          => /\ resp'.status = 400
             /\ "username" \in Keys(resp')
             /\ Keys(resp') \cap {"access", "refresh"} = {}
             /\ tokens' = tokens
             /\ StoreUnchanged ]_vars

\* one account exists, with one of the two emails, and a register was just
\* refused for its username
C3_Witness ==
    /\ Cardinality(DOMAIN accounts) = 1
    /\ resp = Response("register", 400, ErrorBody({"username"}))

\* C4: register with an email in use and an unused username fails with HTTP
\* 400 keyed by 'email', issues no tokens and leaves the table unchanged.
C4_DuplicateEmailRejected ==
    [][ \A data \in RegisterInputs :
          ( /\ resp'.op = "register"
            /\ InUse("email", data.email)
            /\ ~InUse("username", data.username)
            /\ Register(data) )
          => /\ resp'.status = 400
             /\ "email" \in Keys(resp')
             /\ Keys(resp') \cap {"access", "refresh"} = {}
             /\ tokens' = tokens
             /\ StoreUnchanged ]_vars

\* C5, as claimed: register with password # password2 fails with HTTP 400
\* keyed by 'password', for every username and email, and creates no account.
C5_MismatchKeyedByPassword ==
    [][ \A data \in RegisterInputs :
          ( /\ resp'.op = "register"
            /\ data.password # data.password2
            /\ Register(data) )
          => /\ resp'.status = 400
             /\ "password" \in Keys(resp')
             /\ StoreUnchanged ]_vars

\* C5, amended: register with password # password2 fails with HTTP 400 and
\* creates no account, for every username and email; the body is keyed by
\* 'password' when the username is unused, and by 'username' alone when the
\* username is in use.
C5_MismatchRejected ==
    [][ \A data \in RegisterInputs :
          ( /\ resp'.op = "register"
            /\ data.password # data.password2
            /\ Register(data) )
          => /\ resp'.status = 400
             /\ StoreUnchanged
             /\ tokens' = tokens
             /\ IF InUse("username", data.username)
                THEN Keys(resp') = {"username"}
                ELSE "password" \in Keys(resp') ]_vars

\* a register with an unused username was just refused for its passwords,
\* while an account exists
C5_Witness ==
    /\ Cardinality(DOMAIN accounts) = 1
    /\ resp = Response("register", 400, ErrorBody({"password"}))

\* C6: a register with unused username and email and matching passwords adds
\* exactly one account, with the supplied username, email and role (tourist
\* when none is supplied), and returns HTTP 201 with id, access, refresh, user
\* and message, where id and both tokens name the new account.
C6_RegisterCreates ==
    [][ \A data \in RegisterInputs :
          ( /\ resp'.op = "register"
            /\ ~InUse("username", data.username)
            /\ ~InUse("email", data.email)
            /\ data.password = data.password2
            /\ Register(data) )
          => /\ resp'.status = 201
             /\ Keys(resp') = {"id", "access", "refresh", "user", "message"}
             /\ LET id == resp'.body.id
                IN  /\ id \notin DOMAIN accounts
                    /\ DOMAIN accounts' = DOMAIN accounts \cup {id}
                    /\ \A i \in DOMAIN accounts : accounts'[i] = accounts[i]
                    /\ accounts'[id].id = id
                    /\ accounts'[id].username = data.username
                    /\ accounts'[id].email = data.email
                    /\ accounts'[id].user_type =
                         IF data.user_type = Absent THEN "tourist"
                         ELSE data.user_type
                    /\ resp'.body.access = AccessToken(id)
                    /\ resp'.body.refresh = RefreshToken(id)
                    /\ resp'.body.user.id = id
                    /\ resp'.body.user.username = data.username ]_vars

\* a second account was just registered, as a provider, next to a tourist
C6_Witness ==
    /\ resp.op = "register"
    /\ resp.status = 201
    /\ Cardinality(DOMAIN accounts) = 2
    /\ accounts[resp.body.id].user_type = "provider"
    /\ \E i \in DOMAIN accounts : accounts[i].user_type = "tourist"

\* C7: after a successful register(u, e, p, p), authenticate(u, p) succeeds
\* with HTTP 200 and returns a token pair and the profile of the account that
\* register created.
C7_RegisterThenLogin ==
    [][ \A data \in RegisterInputs :
          ( /\ resp'.op = "register"
            /\ resp'.status = 201
            /\ Register(data) )
          => LET login == LoginResponse(accounts',
                            [username |-> data.username, password |-> data.password])
                 id == resp'.body.id
             IN  /\ login.status = 200
                 /\ {"access", "refresh", "user"} \subseteq Keys(login)
                 /\ login.body.access = AccessToken(id)
                 /\ login.body.refresh = RefreshToken(id)
                 /\ login.body.user.id = id
                 /\ login.body.user.username = data.username ]_vars

\* a login succeeded right after the register that made the only account
C7_Witness ==
    /\ requests = 2
    /\ DOMAIN accounts = {1}
    /\ accounts[1].username = "sara"
    /\ resp.op = "login"
    /\ resp.status = 200
    /\ \E i \in DOMAIN accounts : resp.body.user.id = i

WrongPassword(data) ==
    \E i \in DOMAIN accounts :
        /\ accounts[i].username = data.username
        /\ accounts[i].password # make_password(data.password)

\* C8: login with a username of no account and login with an existing
\* username and a wrong password get the same response, HTTP 401 with the
\* same body.
C8_LoginFailuresAlike ==
    \A unknown, wrong \in LoginInputs :
        (~InUse("username", unknown.username) /\ WrongPassword(wrong))
        => /\ LoginResponse(accounts, unknown).status = 401
           /\ LoginResponse(accounts, unknown) = LoginResponse(accounts, wrong)

\* a login was just refused while one of the two usernames has an account
C8_Witness ==
    /\ Cardinality(DOMAIN accounts) = 1
    /\ resp.op = "login"
    /\ resp.status = 401

\* C9: me returns the profile of exactly the account the request is
\* authenticated as; without an authenticated principal it returns HTTP 401
\* and no profile data.
C9_OwnProfileOnly ==
    \A cred \in {NoToken} \cup {AccessToken(i) : i \in Ids} :
        LET me == MeResponse(accounts, cred)
        IN  IF cred.kind = "access" /\ cred.user_id \in DOMAIN accounts
            THEN /\ me.status = 200
                 /\ me.body.id = cred.user_id
                 /\ me.body = UserDetailSerializer(accounts[cred.user_id])
                 /\ \A j \in DOMAIN accounts \ {cred.user_id} :
                        me.body # UserDetailSerializer(accounts[j])
            ELSE /\ me.status = 401
                 /\ Keys(me) \cap UserDetailFields = {}

\* the second of two accounts just read its own profile
C9_Witness ==
    /\ Cardinality(DOMAIN accounts) = 2
    /\ resp.op = "me"
    /\ resp.status = 200
    /\ resp.body.id = 2

\* C10: update_profile with a payload over a subset S of the mutable fields
\* sets exactly the fields of S on the principal's account: every other field
\* of the principal and every field of every other account is unchanged.
C10_PartialMerge ==
    [][ \A cred \in Credentials, payload \in ProfilePayloads :
          ( /\ resp'.op = "update_profile"
            /\ resp'.status = 200
            /\ resp'.body.user.id = cred.user_id
            /\ UpdateProfile(cred, payload) )
          => /\ DOMAIN accounts' = DOMAIN accounts
             /\ \A f \in DOMAIN payload :
                    accounts'[cred.user_id][f]
                       = Stored(media, UserUpdateFields, payload)[f]
             /\ \A f \in ModelFields \ DOMAIN payload :
                    accounts'[cred.user_id][f] = accounts[cred.user_id][f]
             /\ \A i \in DOMAIN accounts \ {cred.user_id} :
                    accounts'[i] = accounts[i] ]_vars

\* an account whose picture was set before has just had its bio alone set
C10_Witness ==
    /\ resp.op = "update_profile"
    /\ resp.status = 200
    /\ requests = 2
    /\ Cardinality(DOMAIN accounts) = 2
    /\ \E i \in DOMAIN accounts :
          /\ accounts[i].bio = "X"
          /\ accounts[i].profile_picture = "X"

\* C11: update_profile cannot change the principal's id, username or email:
\* with values for username or email in the payload, the stored id, username
\* and email of the principal stay as they were.
C11_IdentityKept ==
    [][ \A cred \in Credentials, payload \in UpdatePayloads :
          ( /\ resp'.op = "update_profile"
            /\ DOMAIN payload \cap {"username", "email"} # {}
            /\ Authenticated(accounts, cred)
            /\ UpdateProfile(cred, payload) )
          => /\ cred.user_id \in DOMAIN accounts'
             /\ accounts'[cred.user_id].id = accounts[cred.user_id].id
             /\ accounts'[cred.user_id].username = accounts[cred.user_id].username
             /\ accounts'[cred.user_id].email = accounts[cred.user_id].email ]_vars

\* ali, the only account, has just had the bio set by update_profile; the
\* payload that sets it to "X" next to username "sara" leads here
C11_Witness ==
    /\ resp.op = "update_profile"
    /\ resp.status = 200
    /\ DOMAIN accounts = {1}
    /\ accounts[1].username = "ali"
    /\ accounts[1].email = "ali@x.com"
    /\ accounts[1].bio = "X"

\* C12: after any sequence of requests, update_profile and update by id with
\* a role in the payload included, every account has the role it was created
\* with: no step changes the role of an account.
C12_RoleKept ==
    [][ \A i \in DOMAIN accounts \cap DOMAIN accounts' :
          accounts'[i].user_type = accounts[i].user_type ]_vars

\* a provider registered in the run has just been updated through PUT by id
C12_Witness ==
    /\ resp.op = "update"
    /\ resp.status = 200
    /\ \E i \in DOMAIN accounts :
          accounts[i].user_type = "provider" /\ accounts[i].bio = "X"

\* C13: every account has its four verification flags false, whatever the
\* requests served and their payloads.
C13_FlagsFalse ==
    \A i \in DOMAIN accounts :
        /\ ~accounts[i].is_verified
        /\ ~accounts[i].is_phone_verified
        /\ ~accounts[i].is_identity_verified
        /\ ~accounts[i].is_licensed

\* an account registered in the run has just been through update_profile
C13_Witness ==
    /\ resp.op = "update_profile"
    /\ resp.status = 200
    /\ requests = 2
    /\ DOMAIN accounts = {1}
    /\ accounts[1].username = "sara"
    /\ ~resp.body.user.is_verified

\* what login answers to the username of account i with this password
LoginAs(accts, i, password) ==
    LoginResponse(accts, [username |-> accts[i].username, password |-> password])

\* C14 as stated: for every old password o and new password n, when the
\* current password is o, password_change(o, n, n) answers 200, and then
\* login with n succeeds and login with o fails.
C14_ChangeThenLogin ==
    [][ \A cred \in Credentials, data \in PasswordChangeInputs :
          ( /\ resp'.op = "password_change"
            /\ data.new_password = data.new_password2
            /\ Authenticated(accounts, cred)
            /\ check_password(accounts[cred.user_id], data.old_password)
            /\ PasswordChange(cred, data) )
          => /\ resp'.status = 200
             /\ LoginAs(accounts', cred.user_id, data.new_password).status = 200
             /\ LoginAs(accounts', cred.user_id, data.old_password).status = 401 ]_vars

\* C14, amended: the same for every non-blank n; login with o then fails
\* exactly when n differs from o, and a blank n is refused with 400.
C14_ChangeThenLoginDistinct ==
    [][ \A cred \in Credentials, data \in PasswordChangeInputs :
          ( /\ resp'.op = "password_change"
            /\ data.new_password = data.new_password2
            /\ Authenticated(accounts, cred)
            /\ check_password(accounts[cred.user_id], data.old_password)
            /\ PasswordChange(cred, data) )
          => IF data.new_password = Blank
             THEN resp'.status = 400 /\ accounts' = accounts
             ELSE /\ resp'.status = 200
                  /\ LoginAs(accounts', cred.user_id, data.new_password).status = 200
                  /\ LoginAs(accounts', cred.user_id, data.new_password).body.user.id
                        = cred.user_id
                  /\ (LoginAs(accounts', cred.user_id, data.old_password).status = 401)
                        <=> (data.new_password # data.old_password) ]_vars

\* ali, created with "Pw1!", has changed the password to "Pw2!" and has then
\* logged in with it
C14_Witness ==
    /\ resp.op = "login"
    /\ resp.status = 200
    /\ resp.body.user.username = "ali"
    /\ \E i \in DOMAIN accounts :
          /\ accounts[i].username = "ali"
          /\ check_password(accounts[i], "Pw2!")
          /\ ~check_password(accounts[i], "Pw1!")

ProviderInfoOf(id) == ProviderInfoResponse(accounts, [user_id |-> id])

\* C16: provider_info for the id of an existing tourist or admin answers as
\* it does for an id no account has: 404 with the same body.
C16_NonProviderAsMissing ==
    \A i \in DOMAIN accounts, j \in Ids \ DOMAIN accounts :
        accounts[i].user_type # "provider"
            => /\ ProviderInfoOf(i).status = 404
               /\ ProviderInfoOf(i) = ProviderInfoOf(j)

\* provider_info has just answered 404 while tourist 1 exists, id 2 is the
\* admin registered in the run, and id 3 is free
C16_Witness ==
    /\ resp.op = "provider_info"
    /\ resp.status = 404
    /\ DOMAIN accounts = {1, 2}
    /\ accounts[1].user_type = "tourist"
    /\ accounts[2].user_type = "admin"

\* C17: a 200 of provider_info carries only id, username, display name,
\* picture, bio, website, business name and verification flags, and never
\* the email, the phone number or the address.
C17_ProviderInfoRestricted ==
    (resp.op = "provider_info" /\ resp.status = 200)
        => /\ Keys(resp) \subseteq
                 { "id", "username", "full_name", "profile_picture", "bio",
                   "website", "business_name", "is_verified",
                   "is_phone_verified", "is_identity_verified", "is_licensed" }
           /\ Keys(resp) \cap {"email", "phone_number", "address"} = {}

\* C18: provider_info needs no credentials; it answers 200 exactly when
\* user_id is the id of an existing provider, 400 when user_id is missing,
\* and it never changes the table.
C18_ProviderInfoPublic ==
    [][ \A cred \in Credentials, query \in ProviderInfoQueries :
          ( /\ resp'.op = "provider_info"
            /\ ~BadToken(accounts, cred)
            /\ ProviderInfo(cred, query) )
          => /\ resp' = ProviderInfoResponse(accounts, query)
             /\ (resp'.status = 200)
                   <=> /\ "user_id" \in DOMAIN query
                       /\ query.user_id \in DOMAIN accounts
                       /\ accounts[query.user_id].user_type = "provider"
             /\ "user_id" \notin DOMAIN query => resp'.status = 400
             /\ (resp'.status = 200 => resp'.body.id = query.user_id)
             /\ tokens' = tokens
             /\ StoreUnchanged ]_vars

\* provider_info has just answered 200 with the provider registered in the run
C18_Witness ==
    /\ resp.op = "provider_info"
    /\ resp.status = 200
    /\ resp.body.id \in DOMAIN accounts
    /\ accounts[resp.body.id].user_type = "provider"
    /\ resp.body.username = accounts[resp.body.id].username

\* the ids that were given to an account which no longer exists
Deleted(accts, next) == (1..(next - 1)) \ DOMAIN accts

\* C19: destroy by an authenticated principal who is not the target and is
\* not staff answers 403 and leaves the target and every other account as
\* they were.
C19_ForeignDeleteRefused ==
    [][ \A cred \in Credentials, id \in Ids :
          ( /\ resp'.op = "destroy"
            /\ Authenticated(accounts, cred)
            /\ id \in DOMAIN accounts
            /\ cred.user_id # id
            /\ ~accounts[cred.user_id].is_staff
            /\ Destroy(cred, id) )
          => /\ resp'.status = 403
             /\ tokens' = tokens
             /\ StoreUnchanged ]_vars

\* a destroy has just been refused, and the three accounts are all there:
\* the superuser, ali and the account registered in the run
C19_Witness ==
    /\ resp.op = "destroy"
    /\ resp.status = 403
    /\ DOMAIN accounts = {1, 2, 3}
    /\ ~accounts[2].is_staff
    /\ ~accounts[3].is_staff

\* C20: destroy of an existing account by that account or by a staff
\* principal answers 204 and removes that row and no other; from then on
\* the id names no account, and retrieve and provider_info, sent without a
\* token or with the token of a live account, answer 404 for it.
C20_DeleteRemoves ==
    [][ /\ \A cred \in Credentials, id \in Ids :
             ( /\ resp'.op = "destroy"
               /\ Authenticated(accounts, cred)
               /\ id \in DOMAIN accounts
               /\ (cred.user_id = id \/ accounts[cred.user_id].is_staff)
               /\ Destroy(cred, id) )
             => /\ resp'.status = 204
                /\ accounts' = [i \in DOMAIN accounts \ {id} |-> accounts[i]]
                /\ id \in Deleted(accounts', nextId')
        /\ \A id \in Deleted(accounts, nextId) :
              /\ id \in Deleted(accounts', nextId')
              /\ RetrieveResponse(accounts', id) = NotFound("retrieve")
              /\ ProviderInfoResponse(accounts', [user_id |-> id]).status = 404
        /\ \A cred \in Credentials, id \in Deleted(accounts, nextId) :
             ( /\ resp'.op = "retrieve"
               /\ ~BadToken(accounts, cred)
               /\ Retrieve(cred, id) )
             => resp'.status = 404 ]_vars

\* the superuser has deleted ali, and a retrieve has then answered 404
C20_Witness ==
    /\ resp.op = "retrieve"
    /\ resp.status = 404
    /\ DOMAIN accounts = {1}
    /\ accounts[1].is_staff
    /\ Deleted(accounts, nextId) = {2}

\* C21, for the username: a register that passed its uniqueness pre-check
\* and finds, when it inserts, the username in use by a row another worker
\* inserted in between, creates no account and answers 400 naming the field.
C21_RaceRefused ==
    [][ \A w \in Workers :
          ( /\ inflight[w].op = "register"
            /\ InUse("username", inflight[w].data.username)
            /\ FinishRegister(w) )
          => /\ resp'.status = 400
             /\ "username" \in Keys(resp')
             /\ StoreUnchanged ]_vars

\* the rows of the table other than that of the principal are as they were
OthersUnchanged(cred) ==
    \A i \in DOMAIN accounts \ {cred.user_id} :
        i \in DOMAIN accounts' /\ accounts'[i] = accounts[i]

\* C22: profile fields and the password are mutated owner-only: no request
\* to update_profile, to update by id, to password_change or to
\* upload_profile_picture changes a row other than the one it is
\* authenticated as.
C22_OwnerOnly ==
    [][ /\ \A cred \in Credentials, payload \in UpdatePayloads :
             (resp'.op = "update_profile" /\ UpdateProfile(cred, payload))
                => OthersUnchanged(cred)
        /\ \A cred \in Credentials, id \in Ids, payload \in PutPayloads :
             (resp'.op = "update" /\ Update(cred, id, payload))
                => OthersUnchanged(cred)
        /\ \A cred \in Credentials, data \in PasswordChangeInputs :
             (resp'.op = "password_change" /\ PasswordChange(cred, data))
                => OthersUnchanged(cred)
        /\ \A cred \in Credentials, payload \in UploadPayloads :
             (resp'.op = "upload_profile_picture" /\ UploadProfilePicture(cred, payload))
                => OthersUnchanged(cred) ]_vars

\* the field names a response carries, those of a nested user and of the
\* rows of a list included
Exposed(response) ==
    Keys(response)
    \cup (IF "user" \in Keys(response) THEN DOMAIN response.body.user ELSE {})
    \cup (IF "results" \in Keys(response)
          THEN UNION { DOMAIN response.body.results[i] :
                         i \in DOMAIN response.body.results }
          ELSE {})

PasswordKeys ==
    { "password", "password2", "old_password", "new_password", "new_password2" }

\* C23: in every state the stored credential of every account is the hash
\* of a password, never the password as sent, and no successful response of
\* any operation carries a password field, at the top or nested.
C23_PasswordHashedAndHidden ==
    /\ \A i \in DOMAIN accounts :
          \E raw \in Passwords : accounts[i].password = make_password(raw)
    /\ resp.status \in 200..299 => Exposed(resp) \cap PasswordKeys = {}

\* list has answered with the rows of ali and of sara, who registered in the
\* run; both rows hold a hash
C23_Witness ==
    /\ resp.op = "list"
    /\ resp.status = 200
    /\ DOMAIN resp.body.results = {1, 2}
    /\ accounts[2].username = "sara"
    /\ accounts[2].password = make_password("Pw2!")
    /\ "email" \in Exposed(resp)

\* C24: a successful password_change revokes no token: the access token
\* that carried the request is still among the issued ones and is accepted
\* afterwards by me, update_profile and password_change.
C24_TokensKept ==
    [][ \A cred \in Credentials, data \in PasswordChangeInputs :
          ( /\ resp'.op = "password_change"
            /\ resp'.status = 200
            /\ PasswordChange(cred, data) )
          => /\ tokens' = tokens
             /\ cred.user_id \in tokens'
             /\ Authenticated(accounts', cred)
             /\ MeResponse(accounts', cred).status = 200
             /\ MeResponse(accounts', cred).body.id = cred.user_id
             /\ PasswordChangeErrors(accounts'[cred.user_id],
                   [ old_password  |-> data.new_password,
                     new_password  |-> data.old_password,
                     new_password2 |-> data.old_password ]) = {} ]_vars

\* ali has changed the password to "Pw2!" and me, sent with the token issued
\* before the change, has then answered 200
C24_Witness ==
    /\ resp.op = "me"
    /\ resp.status = 200
    /\ resp.body.username = "ali"
    /\ \E i \in DOMAIN accounts :
          /\ accounts[i].username = "ali"
          /\ check_password(accounts[i], "Pw2!")
    /\ requests = 2

\* C25: a deleted account is terminal: an id whose account was deleted names
\* no account in any later state, also when an update_profile, an
\* upload_profile_picture or a password_change that was authenticated before
\* the delete saves after it.
C25_DeletedTerminal ==
    [][ \A id \in Deleted(accounts, nextId) : id \notin DOMAIN accounts' ]_vars

\* C26: login, accepted or refused, changes no column of any account that
\* the model carries (the last-login timestamp is not one of them) and
\* creates and deletes no account; a refused login changes nothing at all.
C26_LoginFrame ==
    [][ \A data \in LoginInputs :
          (resp'.op = "login" /\ Login(data))
          => /\ StoreUnchanged
             /\ resp'.status # 200 => tokens' = tokens ]_vars

\* a login has just been refused for the password while ali exists, with
\* the password and the active flag the fixture gave
C26_Witness ==
    /\ resp.op = "login"
    /\ resp.status = 401
    /\ \E i \in DOMAIN accounts :
          /\ accounts[i].username = "ali"
          /\ accounts[i].is_active
          /\ check_password(accounts[i], "Pw1!")

\* the account of the principal after update_profile with this payload
Applied(accts, files, cred, payload) ==
    SerializerUpdate(UserUpdateFields, accts[cred.user_id],
                     Stored(files, UserUpdateFields, payload))

\* C27 as stated: update_profile is idempotent: for every account and every
\* valid payload, the request sent a second time right after the first
\* would leave the account as the first left it.
C27_UpdateIdempotent ==
    [][ (resp'.op = "update_profile" /\ resp'.status = 200) =>
        \A cred \in Credentials, payload \in UpdatePayloads :
          ( /\ resp'.body.user.id = cred.user_id
            /\ UpdateProfile(cred, payload) )
          => Applied(accounts', media', cred, payload) = accounts'[cred.user_id] ]_vars

\* C27, amended: the second request is accepted as the first was and leaves
\* every column other than the picture as the first left it; it leaves the
\* picture as well when the payload carries no file, and when it carries one
\* the file is stored again, under a name that differs from the first.
C27_UpdateIdempotentButUpload ==
    [][ (resp'.op = "update_profile" /\ resp'.status = 200) =>
        \A cred \in Credentials, payload \in UpdatePayloads :
          ( /\ resp'.body.user.id = cred.user_id
            /\ UpdateProfile(cred, payload) )
          => LET once  == accounts'[cred.user_id]
                 twice == Applied(accounts', media', cred, payload)
             IN  /\ Authenticated(accounts', cred)
                 /\ UpdateErrors(UserUpdateFields, payload) = {}
                 /\ \A f \in ModelFields \ {"profile_picture"} : twice[f] = once[f]
                 /\ (twice.profile_picture = once.profile_picture)
                       <=> FileKeys(UserUpdateFields, payload) = {} ]_vars

\* update_profile has answered 200 twice in a row; ali has the bio "X", and
\* the picture sent twice as "X" is stored under a second name
C27_Witness ==
    /\ resp.op = "update_profile"
    /\ resp.status = 200
    /\ requests = 2
    /\ DOMAIN accounts = {1}
    /\ accounts[1].username = "ali"
    /\ accounts[1].bio = "X"
    /\ accounts[1].profile_picture = "X_1"
    /\ media = {"X", "X_1"}

\* a request that carries no token
Anonymous == NoToken

\* C28: without credentials only register changes the table: create, update
\* by id, update_profile, password_change, upload_profile_picture and destroy
\* answer 401 and leave every account as it was, and login, list, retrieve,
\* provider_info and me never change the table, whoever sends them.
C28_AnonymousOnlyRegisters ==
    [][ /\ resp'.op \in {"login", "list", "retrieve", "provider_info", "me"}
             => StoreUnchanged
        /\ \A data \in CreateInputs :
             (resp'.op = "create" /\ Create(Anonymous, data))
                => resp'.status = 401 /\ StoreUnchanged
        /\ \A id \in Ids, payload \in PutPayloads :
             (resp'.op = "update" /\ Update(Anonymous, id, payload))
                => resp'.status = 401 /\ StoreUnchanged
        /\ \A payload \in UpdatePayloads :
             (resp'.op = "update_profile" /\ UpdateProfile(Anonymous, payload))
                => resp'.status = 401 /\ StoreUnchanged
        /\ \A data \in PasswordChangeInputs :
             (resp'.op = "password_change" /\ PasswordChange(Anonymous, data))
                => resp'.status = 401 /\ StoreUnchanged
        /\ \A payload \in UploadPayloads :
             ( /\ resp'.op = "upload_profile_picture"
               /\ UploadProfilePicture(Anonymous, payload) )
                => resp'.status = 401 /\ StoreUnchanged /\ media' = media
        /\ \A id \in Ids :
             (resp'.op = "destroy" /\ Destroy(Anonymous, id))
                => resp'.status = 401 /\ StoreUnchanged ]_vars

\* a destroy has been answered 401 and the three accounts are still there
C28_Witness ==
    /\ resp.op = "destroy"
    /\ resp.status = 401
    /\ DOMAIN accounts = {1, 2, 3}
    /\ tokens = {1, 2, 3}

\* C29: the role 'admin' chosen in register gives no right to delete: the
\* account register creates is not staff whatever role it asked for, no
\* request makes an account staff, and destroy of another account by a
\* principal who is not staff answers 403 and deletes nothing, the role of
\* the principal being 'admin' or not.
C29_AdminRoleNoPrivilege ==
    [][ /\ \A data \in RegisterInputs :
             (resp'.op = "register" /\ resp'.status = 201 /\ Register(data))
                => ~accounts'[resp'.body.id].is_staff
        /\ \A i \in DOMAIN accounts \cap DOMAIN accounts' :
              accounts'[i].is_staff = accounts[i].is_staff
        /\ \A cred \in Credentials, id \in Ids :
             ( /\ resp'.op = "destroy"
               /\ Authenticated(accounts, cred)
               /\ accounts[cred.user_id].user_type = "admin"
               /\ ~accounts[cred.user_id].is_staff
               /\ id \in DOMAIN accounts
               /\ id # cred.user_id
               /\ Destroy(cred, id) )
             => /\ resp'.status = 403
                /\ StoreUnchanged ]_vars

\* destroy has answered 403 where sara, registered with the role admin, is
\* the only account next to ali, and neither of them is staff
C29_Witness ==
    /\ resp.op = "destroy"
    /\ resp.status = 403
    /\ DOMAIN accounts = {1, 2}
    /\ accounts[1].username = "ali"
    /\ ~accounts[1].is_staff
    /\ accounts[2].user_type = "admin"
    /\ ~accounts[2].is_staff

\* C30: the saves of a password_change and of an update_profile or an
\* upload_profile_picture of one principal that overlap do not overwrite
\* each other: the save of the update or of the upload leaves the stored
\* password as the table has it, and the save of the password_change leaves
\* every column but the password as the table has it.
C30_NoLostUpdate ==
    [][ \A w \in Workers :
          ( /\ inflight[w].op \in
                  {"update_profile", "upload_profile_picture", "password_change"}
            /\ inflight[w].user.id \in DOMAIN accounts
            /\ FinishSave(w) )
          => LET id == inflight[w].user.id
             IN  IF inflight[w].op = "password_change"
                 THEN \A f \in ModelFields \ {"password"} :
                         accounts'[id][f] = accounts[id][f]
                 ELSE accounts'[id].password = accounts[id].password ]_vars

====
